---------------------------- MODULE Spec2Model ----------------------------
(***************************************************************************)
(* The client-side valuation workflow and history ledger of the donation   *)
(* pricing assistant (src/src/App.tsx), with the valuation collaborator    *)
(* (PricingAssistantService.analyzeItem) as an environment that answers    *)
(* each request with a response or a rejection.                            *)
(*                                                                         *)
(* The camera of the Capture/Input Manager is the browser's media device:   *)
(* it answers each getUserMedia call by handing out a stream or refusing.   *)
(*                                                                         *)
(* JavaScript values are records tagged by "type".  A property that an     *)
(* object does not have is the string "absent".  The handlers of the       *)
(* component are the actions; a handler runs to completion (one event-loop *)
(* turn), React commits the batched state updates in one render, and the   *)
(* effect that persists the history runs with that commit.                 *)
(***************************************************************************)
EXTENDS Integers, Sequences, FiniteSets, TLC

VARIABLES
    file,         \* useState<File | null>: the selected image
    preview,      \* useState<string | null>: the preview URL of the selected image
    status,       \* useState<ResearchStatus>
    result,       \* useState<ValuationResult | null>
    history,      \* useState<ValuationResult[]>, as loaded: any JSON value
    stored,       \* localStorage slot 'valuationHistory'
    crashed,      \* a render threw: React has unmounted the component
    now,          \* the wall clock read by new Date()
    runs,         \* the workflows in flight, in order of invocation
    invoked,      \* how many invocations of handleValuation there were, over all starts
    boot,         \* what the slot held when the application last started
    showScanner,  \* useState(false): the scanner view is chosen
    stream,       \* useState<MediaStream | null>
    started,      \* how many getUserMedia calls there were: call n opens stream n
    pending,      \* the getUserMedia calls not yet answered
    granted,      \* the streams handed out whose startCamera has not resumed yet
    live,         \* the streams with a track that is not stopped
    captures,     \* the toBlob callbacks not yet run: the render each closed over
    urls,         \* the object URLs created on this page and not revoked
    download      \* the document last offered for download

ui == <<file, preview, status, result, history, stored, crashed>>
camera == <<showScanner, stream, started, pending, granted, live, captures>>

vars == <<file, preview, status, result, history, stored, crashed, now, runs,
          invoked, boot, showScanner, stream, started, pending, granted, live,
          captures, urls, download>>

---------------------------------------------------------------------------
(* Bounds of the model *)

MaxRuns == 2
MaxStreams == 2
MaxCaptures == 1
MaxUrls == 2

(* Program constant: .slice(0, 50) *)
HistoryCap == 50

---------------------------------------------------------------------------
(* Values *)

Null == [type |-> "null"]
NoFile == "none"
NoStream == 0
NoDownload == [type |-> "none"]
Images == {"imgA", "imgB"}

Min(a, b) == IF a < b THEN a ELSE b

IsoString(t) == [type |-> "string", at |-> t]

(* ValuationResult, reduced to the fields the code and the schema look at. *)
EthicalCheckResult == {"Pass", "Fail", "Check Carefully"}
DemandLevel == {"High", "Medium", "Low"}
ConfidenceLevel == {"High", "Medium", "Low"}

Jacket ==
    [itemName |-> "Kathmandu Epiq Men's Down Jacket", ethicalCheck |-> "Pass",
     demandLevel |-> "High", confidenceLevel |-> "High"]
Coat ==
    [itemName |-> "Vintage style 3/4 Coat", ethicalCheck |-> "Fail",
     demandLevel |-> "Low", confidenceLevel |-> "Medium"]

(* What JSON.parse(text) as ValuationResult may also hand back: the cast    *)
(* checks nothing.                                                         *)
BadEnum ==
    [itemName |-> "Anko Ceramic Vase (White)", ethicalCheck |-> "Pass",
     demandLevel |-> "Extreme", confidenceLevel |-> "High"]
NoEthicalCheck ==
    [itemName |-> "Anko Ceramic Vase (White)", ethicalCheck |-> "absent",
     demandLevel |-> "Medium", confidenceLevel |-> "High"]

Responses == {Jacket, Coat, BadEnum, NoEthicalCheck}

(* The response schema: every field required, the three enumerations.      *)
SchemaValid(d) ==
    /\ d.itemName # "absent"
    /\ d.ethicalCheck \in EthicalCheckResult
    /\ d.demandLevel \in DemandLevel
    /\ d.confidenceLevel \in ConfidenceLevel

(* { ...data, timestamp: new Date().toISOString() } *)
Stamp(data, t) ==
    [f \in DOMAIN data \cup {"timestamp"} |->
        IF f = "timestamp" THEN IsoString(t) ELSE data[f]]

Array(items) == [type |-> "array", items |-> items]
IsArray(v) == v.type = "array"

(* slice(0, n) *)
Slice(s, n) == SubSeq(s, 1, Min(n, Len(s)))

---------------------------------------------------------------------------
(* localStorage and JSON *)

Absent == [type |-> "absent"]        \* getItem returns null
EmptyText == [type |-> "empty"]      \* the empty string
Garbage == [type |-> "garbage"]      \* text that JSON.parse rejects
Text(v) == [type |-> "json", value |-> v]

(* An entry written by an earlier session: the i-th, most recent first.     *)
OldEntry(i) == Stamp(IF i % 2 = 1 THEN Jacket ELSE Coat, 0 - i)
OldHistory(n) == Array([i \in 1..n |-> OldEntry(i)])

StoredLengths == {0, HistoryCap - 1, HistoryCap, HistoryCap + 1}

(* What the slot may hold when the application starts.                     *)
BootStores ==
    {Absent, EmptyText, Garbage, Text(Null), Text([type |-> "object"])}
    \cup {Text(OldHistory(n)) : n \in StoredLengths}

(* JSON.stringify of a timestamp value: a Date becomes its ISO string.      *)
JsonProp(v) == IF v.type = "date" THEN IsoString(v.at) ELSE v

JsonEntry(e) ==
    [f \in DOMAIN e |-> IF f = "timestamp" THEN JsonProp(e[f]) ELSE e[f]]

JsonValue(v) ==
    IF IsArray(v) THEN Array([i \in 1..Len(v.items) |-> JsonEntry(v.items[i])])
    ELSE v

(* JSON.stringify(history) *)
Stringify(v) == Text(JsonValue(v))

(* JSON.parse(saved): the value, or a throw *)
ParseThrows(saved) == saved.type # "json"
Parse(saved) == saved.value

(* The initializer of the history state. *)
LoadHistory(saved) ==
    IF saved.type \in {"absent", "empty"} THEN Array(<<>>)
    ELSE IF ParseThrows(saved) THEN Array(<<>>)
    ELSE Parse(saved)

---------------------------------------------------------------------------
(* Rendering *)

Idle == [step |-> "idle", message |-> ""]
Failed == [step |-> "idle", message |-> "Analysis failed."]

(* The list with the second 'searching' phase left out. *)
stepsOnce ==
    << [step |-> "analyzing", message |-> "Analyzing item brand and model..."],
       [step |-> "searching", message |-> "Scanning Trade Me & FB Marketplace..."],
       [step |-> "assessing", message |-> "Calculating local demand indices..."],
       [step |-> "finalizing", message |-> "Generating optimal pricing strategy..."] >>

steps ==
    << [step |-> "analyzing", message |-> "Analyzing item brand and model..."],
       [step |-> "searching", message |-> "Scanning Trade Me & FB Marketplace..."],
       [step |-> "searching", message |-> "Benchmarking NZ retail prices..."],
       [step |-> "assessing", message |-> "Calculating local demand indices..."],
       [step |-> "finalizing", message |-> "Generating optimal pricing strategy..."] >>

(* The panels of the view, as the render chooses them. *)
InputPanel(r, st) == r = Null /\ st.step = "idle"
ResearchPanel(st) == st.step # "idle"

(* The status messages on show: the only place that renders status.message  *)
(* is the paragraph of the research panel.                                   *)
MessagesShown(st) == IF ResearchPanel(st) THEN {st.message} ELSE {}

(* A state updater that threw while React was rendering. *)
Thrown == [type |-> "thrown"]

(* The render of App, with the history panel closed, throws a TypeError:    *)
(* history.length of null; in the result panel, result.ethicalCheck.status  *)
(* and result.confidenceLevel.toUpperCase() of a result without these        *)
(* properties.                                                               *)
RenderThrows(h, r) ==
    \/ h.type \in {"thrown", "null"}
    \/ r # Null /\ (r.ethicalCheck = "absent" \/ r.confidenceLevel = "absent")

(* setHistory(prev => [resultWithTimestamp, ...prev].slice(0, 50)): the      *)
(* spread of a value that is not iterable throws.                            *)
Prepend(entry, prev) ==
    IF IsArray(prev) THEN Array(Slice(<<entry>> \o prev.items, HistoryCap))
    ELSE Thrown

(* The effect saving the history of the render before. *)
PersistStale(h) == Stringify(history)

(* The effect on [history]: localStorage.setItem(..., JSON.stringify(history)) *)
Persist(h) == Stringify(h)

(* One render after a handler's batched updates, with the effect that saves *)
(* the history when setHistory was called.  Updates to an unmounted          *)
(* component are dropped; a render that throws unmounts it.                  *)
Commit(f, p, st, r, h, saves) ==
    IF crashed \/ RenderThrows(h, r)
    THEN /\ crashed' = TRUE
         /\ UNCHANGED <<file, preview, status, result, history, stored>>
    ELSE /\ crashed' = FALSE
         /\ file' = f
         /\ preview' = p
         /\ status' = st
         /\ result' = r
         /\ history' = h
         /\ stored' = IF saves THEN Persist(h) ELSE stored

(* stopCamera without its setStream(null). *)
StopCameraNoReset(s) == stream

(* The tracks that stopCamera of a render with stream s stops, and the       *)
(* stream state after it: if (stream) { ...stop(); setStream(null) }         *)
Stopped(s) == IF s # NoStream THEN {s} ELSE {}
StopCamera(s) == IF s # NoStream THEN NoStream ELSE stream

(* The camera side of the same render: the new showScanner and stream, and  *)
(* the cleanup of the effect on [stream], which stops the tracks of the      *)
(* stream that is replaced, or of the held stream when the component is      *)
(* unmounted.  stopped are the streams the handler stopped itself.           *)
CommitCamera(sc, s, stopped) ==
    IF crashed'
    THEN /\ live' = (live \ stopped) \ (IF crashed THEN {} ELSE {stream})
         /\ UNCHANGED <<showScanner, stream>>
    ELSE /\ live' = (live \ stopped) \ (IF s # stream THEN {stream} ELSE {})
         /\ showScanner' = sc
         /\ stream' = s

(* A render that leaves the camera state as it is. *)
KeepCamera == CommitCamera(showScanner, stream, {})

---------------------------------------------------------------------------
(* Start of the application *)

(* The slot after the first render and its effects. *)
Mounted(saved) ==
    IF RenderThrows(LoadHistory(saved), Null) THEN saved
    ELSE Persist(LoadHistory(saved))

Init ==
    \E saved \in BootStores :
        /\ boot = saved
        /\ file = NoFile
        /\ preview = NoFile
        /\ status = Idle
        /\ result = Null
        /\ history = LoadHistory(saved)
        /\ crashed = RenderThrows(LoadHistory(saved), Null)
        /\ stored = Mounted(saved)
        /\ now = 1
        /\ runs = <<>>
        /\ invoked = 0
        /\ showScanner = FALSE
        /\ stream = NoStream
        /\ started = 0
        /\ pending = {}
        /\ granted = <<>>
        /\ live = {}
        /\ captures = <<>>
        /\ urls = 0
        /\ download = NoDownload

---------------------------------------------------------------------------
(* Capture/Input Manager *)

(* processFile of a render whose stream was s: the preview is a new object  *)
(* URL, and nothing revokes the one before.                                  *)
ProcessFile(selectedFile, s) ==
    /\ Commit(selectedFile, selectedFile, status, Null, history, FALSE)
    /\ CommitCamera(FALSE, StopCamera(s), Stopped(s))
    /\ urls' = urls + 1

(* handleFileChange -> processFile(selectedFile) *)
SelectFile(f) ==
    /\ ~crashed
    /\ urls < MaxUrls
    /\ ProcessFile(f, stream)
    /\ UNCHANGED <<now, runs, invoked, boot, started, pending, granted,
                   captures, download>>

(* The 'Scan New Donation' button of the result panel. *)
ScanNewDonation ==
    /\ ~crashed
    /\ result # Null
    /\ Commit(NoFile, NoFile, status, Null, history, FALSE)
    /\ KeepCamera
    /\ UNCHANGED <<now, runs, invoked, boot, started, pending, granted,
                   captures, urls, download>>

(* startCamera up to its await: the getUserMedia call. *)
StartCamera ==
    /\ ~crashed
    /\ started < MaxStreams
    /\ started' = started + 1
    /\ pending' = pending \cup {started + 1}
    /\ UNCHANGED <<ui, now, runs, invoked, boot, showScanner, stream, granted,
                   live, captures, urls, download>>

(* The browser opens the device for call n and resolves its promise. *)
Grant(n) ==
    /\ n \in pending
    /\ pending' = pending \ {n}
    /\ granted' = Append(granted, n)
    /\ live' = live \cup {n}
    /\ UNCHANGED <<ui, now, runs, invoked, boot, showScanner, stream, started,
                   captures, urls, download>>

(* The browser refuses call n: the catch block of startCamera logs and       *)
(* alerts.                                                                   *)
Deny(n) ==
    /\ n \in pending
    /\ pending' = pending \ {n}
    /\ UNCHANGED <<ui, now, runs, invoked, boot, showScanner, stream, started,
                   granted, live, captures, urls, download>>

(* startCamera after its await: setStream(mediaStream), setShowScanner(true) *)
StartCameraResume ==
    /\ granted # <<>>
    /\ granted' = Tail(granted)
    /\ Commit(file, preview, status, result, history, FALSE)
    /\ CommitCamera(TRUE, Head(granted), {})
    /\ UNCHANGED <<now, runs, invoked, boot, started, pending, captures, urls,
                   download>>

(* The close button of the scanner: setShowScanner(false); stopCamera() *)
CloseScanner ==
    /\ ~crashed
    /\ Commit(file, preview, status, result, history, FALSE)
    /\ CommitCamera(FALSE, StopCamera(stream), Stopped(stream))
    /\ UNCHANGED <<now, runs, invoked, boot, started, pending, granted,
                   captures, urls, download>>

(* The video and the canvas are mounted: videoRef.current && canvasRef.current *)
ScannerMounted ==
    ~crashed /\ result = Null /\ status.step = "idle" /\ showScanner

(* capturePhoto: the frame is drawn and toBlob is called with a callback of  *)
(* this render.                                                              *)
CapturePhoto ==
    /\ ~crashed
    /\ Len(captures) < MaxCaptures
    /\ IF ScannerMounted
       THEN captures' = Append(captures, [stream |-> stream])
       ELSE UNCHANGED captures
    /\ UNCHANGED <<ui, now, runs, invoked, boot, showScanner, stream, started,
                   pending, granted, live, urls, download>>

(* The toBlob callback: with a blob, processFile(capturedFile). *)
BlobReady(hasBlob) ==
    /\ captures # <<>>
    /\ captures' = Tail(captures)
    /\ IF hasBlob
       THEN /\ urls < MaxUrls
            /\ ProcessFile("scan", Head(captures).stream)
       ELSE UNCHANGED <<ui, showScanner, stream, live, urls>>
    /\ UNCHANGED <<now, runs, invoked, boot, started, pending, granted,
                   download>>

---------------------------------------------------------------------------
(* Valuation Workflow *)

(* A workflow in flight is a record of runs:                                 *)
(*   image      the file of the render the handler was created in            *)
(*   pc         "dwell": awaiting a phase timer; "calling": awaiting the     *)
(*              collaborator                                                 *)
(*   k          how many elements of steps the loop has taken                *)
(*   request    the argument of the analyzeItem call, once made              *)
(* and, for the record: submitted (the selected image when it was invoked),  *)
(* trace (the steps it passed to setStatus), dwells (the timers awaited),    *)
(* requests (the calls of analyzeItem), startedAt, and sawDelivery (another  *)
(* workflow delivered a result while this one was in flight).                *)

(* The call made with whatever is selected when it is made. *)
RequestArgLatest(run) == file

(* The argument of PricingAssistantService.analyzeItem(file). *)
RequestArg(run) == run.image

(* The run that handleValuation starts. *)
NewRun ==
    [image |-> file, submitted |-> file, pc |-> "dwell", k |-> 1,
     trace |-> <<steps[1].step>>, dwells |-> 0, requests |-> 0,
     request |-> NoFile, startedAt |-> now, sawDelivery |-> FALSE]

(* handleValuation without its guard on the file. *)
HandleValuationUnguarded ==
    /\ ~crashed
    /\ invoked < MaxRuns
    /\ invoked' = invoked + 1
    /\ runs' = Append(runs, NewRun)
    /\ Commit(file, preview, steps[1], Null, history, FALSE)
    /\ KeepCamera
    /\ UNCHANGED <<now, boot, started, pending, granted, captures, urls,
                   download>>

(* handleValuation up to its first await: the guard, setResult(null), the   *)
(* first setStatus.                                                         *)
HandleValuation ==
    /\ ~crashed
    /\ invoked < MaxRuns
    /\ invoked' = invoked + 1
    /\ IF file = NoFile
       THEN UNCHANGED <<ui, runs, showScanner, stream, live>>
       ELSE /\ runs' = Append(runs, NewRun)
            /\ Commit(file, preview, steps[1], Null, history, FALSE)
            /\ KeepCamera
    /\ UNCHANGED <<now, boot, started, pending, granted, captures, urls,
                   download>>

(* The 800 ms timer of a phase fires: the next setStatus, or, after the     *)
(* last phase, the call of the collaborator.                                 *)
PhaseTimer(i) ==
    /\ runs[i].pc = "dwell"
    /\ IF runs[i].k < Len(steps)
       THEN /\ runs' = [runs EXCEPT ![i].k = @ + 1,
                                    ![i].dwells = @ + 1,
                                    ![i].trace = Append(@, steps[runs[i].k + 1].step)]
            /\ Commit(file, preview, steps[runs[i].k + 1], result, history, FALSE)
            /\ KeepCamera
       ELSE /\ runs' = [runs EXCEPT ![i].pc = "calling",
                                    ![i].dwells = @ + 1,
                                    ![i].requests = @ + 1,
                                    ![i].request = RequestArg(runs[i])]
            /\ UNCHANGED <<ui, showScanner, stream, live>>
    /\ UNCHANGED <<now, invoked, boot, started, pending, granted, captures,
                   urls, download>>

(* The runs left when run i has returned; delivered tells the others that a *)
(* result was delivered meanwhile.                                           *)
Finish(i, delivered) ==
    [j \in 1..(Len(runs) - 1) |->
        LET r == IF j < i THEN runs[j] ELSE runs[j + 1] IN
        [r EXCEPT !.sawDelivery = @ \/ delivered]]

(* A timestamp that does not read the clock. *)
EpochTime(run) == 0

(* new Date() when the workflow of run resumes with the data *)
CompletionTime(run) == now

(* The collaborator answers with data: the rest of the try block.  Reading  *)
(* data.ethicalCheck.status of data without ethicalCheck throws, after the   *)
(* three state updates, into the catch block.                                *)
Resolve(i, data) ==
    LET resultWithTimestamp == Stamp(data, CompletionTime(runs[i]))
        h == Prepend(resultWithTimestamp, history)
        threw == data.ethicalCheck = "absent"
        committed == ~crashed /\ ~RenderThrows(h, resultWithTimestamp)
    IN
    /\ runs[i].pc = "calling"
    /\ runs' = Finish(i, committed)
    /\ Commit(file, preview, IF threw THEN Failed ELSE Idle,
              resultWithTimestamp, h, TRUE)
    /\ KeepCamera
    /\ now' = now + 1
    /\ UNCHANGED <<invoked, boot, started, pending, granted, captures, urls,
                   download>>

(* The collaborator call rejects (network or API failure, or a response      *)
(* text that JSON.parse rejects): the catch block.                           *)
Reject(i) ==
    /\ runs[i].pc = "calling"
    /\ runs' = Finish(i, FALSE)
    /\ Commit(file, preview, Failed, result, history, FALSE)
    /\ KeepCamera
    /\ UNCHANGED <<now, invoked, boot, started, pending, granted, captures,
                   urls, download>>

---------------------------------------------------------------------------
(* History Ledger *)

(* clearHistory emptying the list without the save that follows. *)
ClearHistoryUnsaved(confirmed) ==
    /\ ~crashed
    /\ IF confirmed
       THEN /\ Commit(file, preview, status, result, Array(<<>>), FALSE)
            /\ KeepCamera
       ELSE UNCHANGED <<ui, showScanner, stream, live>>
    /\ UNCHANGED <<now, runs, invoked, boot, started, pending, granted,
                   captures, urls, download>>

(* clearHistory, with the user's answer to confirm(). *)
ClearHistory(confirmed) ==
    /\ ~crashed
    /\ IF confirmed
       THEN /\ Commit(file, preview, status, result, Array(<<>>), TRUE)
            /\ KeepCamera
       ELSE UNCHANGED <<ui, showScanner, stream, live>>
    /\ UNCHANGED <<now, runs, invoked, boot, started, pending, granted,
                   captures, urls, download>>

(* encodeURIComponent, and its decoding by the browser that saves the file *)
EncodeURIComponent(text) == [type |-> "uri", of |-> text]
DecodeURIComponent(uri) == uri.of

(* history.length === 0 *)
LengthIsZero(h) == IsArray(h) /\ Len(h.items) = 0

(* An export of the most recent entry alone. *)
ExportedFirstOnly(h, t) ==
    IF LengthIsZero(h) THEN NoDownload
    ELSE [type |-> "file", day |-> t,
          href |-> EncodeURIComponent(
                      Stringify(IF IsArray(h) THEN Array(Slice(h.items, 1)) ELSE h))]

(* The document exportResults offers: the data URI and the dated name. *)
Exported(h, t) ==
    IF LengthIsZero(h) THEN NoDownload
    ELSE [type |-> "file", href |-> EncodeURIComponent(Stringify(h)), day |-> t]

(* exportResults *)
ExportResults ==
    /\ ~crashed
    /\ download' = IF LengthIsZero(history) THEN download
                   ELSE Exported(history, now)
    /\ UNCHANGED <<ui, now, runs, invoked, boot, camera, urls>>

---------------------------------------------------------------------------
(* Environment *)

(* The page is loaded again: the state is built anew from the slot; the     *)
(* workflows, the pending calls and callbacks, the streams and the object    *)
(* URLs of the old page are gone with its document.                          *)
Restart ==
    /\ boot' = stored
    /\ file' = NoFile
    /\ preview' = NoFile
    /\ status' = Idle
    /\ result' = Null
    /\ history' = LoadHistory(stored)
    /\ crashed' = RenderThrows(LoadHistory(stored), Null)
    /\ stored' = Mounted(stored)
    /\ runs' = <<>>
    /\ showScanner' = FALSE
    /\ stream' = NoStream
    /\ pending' = {}
    /\ granted' = <<>>
    /\ live' = {}
    /\ captures' = <<>>
    /\ urls' = 0
    /\ UNCHANGED <<now, invoked, started, download>>

Next ==
    \/ \E f \in Images : SelectFile(f)
    \/ ScanNewDonation
    \/ HandleValuation
    \/ \E i \in 1..Len(runs) : PhaseTimer(i)
    \/ \E i \in 1..Len(runs) : \E data \in Responses : Resolve(i, data)
    \/ \E i \in 1..Len(runs) : Reject(i)
    \/ \E confirmed \in BOOLEAN : ClearHistory(confirmed)
    \/ Restart

Spec == Init /\ [][Next]_vars

(* The timers of the phases fire; nothing makes the collaborator answer. *)
SpecLive == Spec /\ WF_vars(\E i \in 1..Len(runs) : PhaseTimer(i))

(* handleValuation invoked while no workflow is in flight. *)
HandleValuationAlone == runs = <<>> /\ HandleValuation

(* The ledger with its export, the workflows one at a time. *)
NextLedger ==
    \/ \E f \in Images : SelectFile(f)
    \/ ScanNewDonation
    \/ HandleValuationAlone
    \/ \E i \in 1..Len(runs) : PhaseTimer(i)
    \/ \E i \in 1..Len(runs) : \E data \in Responses : Resolve(i, data)
    \/ \E i \in 1..Len(runs) : Reject(i)
    \/ \E confirmed \in BOOLEAN : ClearHistory(confirmed)
    \/ Restart
    \/ ExportResults

SpecLedger == Init /\ [][NextLedger]_vars

(* A first visit: the slot holds nothing yet. *)
InitCamera == Init /\ boot = Absent

(* The button offered whenever a file is selected. *)
AnalyzeOfferedWithFile == ~crashed /\ file # NoFile

(* The render offers the Analyze Item button: in the input panel, with the  *)
(* scanner closed and a file selected.                                       *)
AnalyzeOffered ==
    ~crashed /\ InputPanel(result, status) /\ ~showScanner /\ file # NoFile

(* A click on the Analyze Item button. *)
AnalyzeClick == AnalyzeOffered /\ HandleValuation

(* The application from a first visit on, with handleValuation invoked by   *)
(* the button alone; every other handler may run at any time.               *)
NextUI ==
    \/ \E f \in Images : SelectFile(f)
    \/ ScanNewDonation
    \/ StartCamera
    \/ \E n \in pending : Grant(n)
    \/ \E n \in pending : Deny(n)
    \/ StartCameraResume
    \/ CloseScanner
    \/ CapturePhoto
    \/ \E hasBlob \in BOOLEAN : BlobReady(hasBlob)
    \/ AnalyzeClick
    \/ \E i \in 1..Len(runs) : PhaseTimer(i)
    \/ \E i \in 1..Len(runs) : \E data \in Responses : Resolve(i, data)
    \/ \E i \in 1..Len(runs) : Reject(i)
    \/ \E confirmed \in BOOLEAN : ClearHistory(confirmed)
    \/ Restart

SpecUI == InitCamera /\ [][NextUI]_vars

(* One page load with the camera in use, the workflows one at a time. *)
NextCamera ==
    \/ \E f \in Images : SelectFile(f)
    \/ ScanNewDonation
    \/ StartCamera
    \/ \E n \in pending : Grant(n)
    \/ \E n \in pending : Deny(n)
    \/ StartCameraResume
    \/ CloseScanner
    \/ CapturePhoto
    \/ \E hasBlob \in BOOLEAN : BlobReady(hasBlob)
    \/ HandleValuationAlone
    \/ \E i \in 1..Len(runs) : PhaseTimer(i)
    \/ \E i \in 1..Len(runs) : \E data \in Responses : Resolve(i, data)
    \/ \E i \in 1..Len(runs) : Reject(i)

SpecCamera == InitCamera /\ [][NextCamera]_vars

---------------------------------------------------------------------------
(* Properties *)

PhaseOrder == <<"analyzing", "searching", "searching", "assessing", "finalizing">>

IsPrefix(s, t) == Len(s) <= Len(t) /\ s = SubSeq(t, 1, Len(s))

(* A step puts a new result on show, or a new entry into the history. *)
NewResult == result' # Null /\ result' # result
NewEntry == IsArray(history') /\ history' # history /\ history'.items # <<>>

(* A workflow's record agrees with the fixed order of phases: it has set a  *)
(* prefix of the order, one phase per dwell, and calls the collaborator      *)
(* only with all five set and dwelt.                                         *)
RunInOrder(r) ==
    /\ r.trace # <<>>
    /\ IsPrefix(r.trace, PhaseOrder)
    /\ r.pc = "dwell" => r.dwells = Len(r.trace) - 1
    /\ r.pc = "calling" => r.trace = PhaseOrder /\ r.dwells = Len(PhaseOrder)

(* C1: every submission sets the status step to analyzing, searching,       *)
(* searching, assessing, finalizing in exactly that order, one phase per    *)
(* dwell, each set step showing as the status; and no step puts a result on *)
(* show or an entry into the history unless a workflow that has set and     *)
(* dwelt all five phases returns in it.                                      *)
C1_PhasesInOrder ==
    [][/\ \A j \in 1..Len(runs') : RunInOrder(runs'[j])
       /\ Len(runs') = Len(runs) + 1
            => runs'[Len(runs')].trace = <<"analyzing">> /\ status'.step = "analyzing"
       /\ Len(runs') = Len(runs)
            => \A j \in 1..Len(runs) :
                  runs'[j].trace # runs[j].trace
                  => /\ Len(runs'[j].trace) = Len(runs[j].trace) + 1
                     /\ ~crashed => status'.step = PhaseOrder[Len(runs'[j].trace)]
       /\ NewResult \/ NewEntry
            => /\ Len(runs') = Len(runs) - 1
               /\ \E i \in 1..Len(runs) :
                     /\ runs[i].pc = "calling"
                     /\ runs[i].trace = PhaseOrder
                     /\ runs[i].dwells = Len(PhaseOrder)
                     /\ runs' = Finish(i, TRUE)]_vars

C1_Witness ==
    /\ result = Null
    /\ status.step = "finalizing"
    /\ \E j \in 1..Len(runs) :
          /\ runs[j].pc = "calling"
          /\ runs[j].trace = PhaseOrder
          /\ runs[j].dwells = Len(PhaseOrder)

(* C2 (as claimed): the argument of a request is the image that is selected *)
(* when the request is issued.                                               *)
C2_ArgIsSelectedAtRequest ==
    [][Len(runs') = Len(runs)
        => \A j \in 1..Len(runs) :
              runs[j].pc = "dwell" /\ runs'[j].pc = "calling"
              => runs'[j].request = file]_vars

(* C2 (amended): a workflow has issued no request before its last phase has *)
(* been dwelt and exactly one after, and the argument of the request is the *)
(* image that was selected when the submission was made.                     *)
C2_OneRequestWithSubmittedImage ==
    \A j \in 1..Len(runs) :
        /\ runs[j].submitted \in Images
        /\ runs[j].pc = "dwell"
             => /\ runs[j].requests = 0
                /\ runs[j].request = NoFile
                /\ runs[j].dwells < Len(PhaseOrder)
        /\ runs[j].pc = "calling"
             => /\ runs[j].requests = 1
                /\ runs[j].dwells = Len(PhaseOrder)
                /\ runs[j].trace = PhaseOrder
                /\ runs[j].request = runs[j].submitted

C2_Witness ==
    \E j \in 1..Len(runs) :
        /\ runs[j].pc = "calling"
        /\ runs[j].request = "imgA"
        /\ file = "imgB"

(* C3 (as claimed): whenever a submission fails, because the collaborator    *)
(* call rejects or because it returns data that does not satisfy the         *)
(* schema, the workflow ends idle with the failure message, the history is   *)
(* unchanged, the result stays null and the selected image is still there.   *)
C3_FailureLeavesNoTrace ==
    [][\A i \in 1..Len(runs) :
          (Reject(i) \/ \E d \in Responses : ~SchemaValid(d) /\ Resolve(i, d))
          => /\ status' = Failed
             /\ history' = history
             /\ result' = Null
             /\ file' # NoFile]_vars

(* C4 (as claimed): when the collaborator call succeeds, the workflow ends  *)
(* with status step idle, the result is the returned data plus a timestamp, *)
(* and the history is that result at index 0 followed by the earlier        *)
(* entries in their order.                                                   *)
C4_SuccessIsDelivered ==
    [][\A i \in 1..Len(runs) : \A d \in Responses :
          SchemaValid(d) /\ Resolve(i, d)
          => /\ status'.step = "idle"
             /\ result' # Null
             /\ result'.timestamp = IsoString(now)
             /\ \A f \in DOMAIN d : result'[f] = d[f]
             /\ IsArray(history) /\ IsArray(history')
             /\ history'.items[1] = result'
             /\ Len(history'.items) = Min(Len(history.items) + 1, HistoryCap)
             /\ \A n \in 2..Len(history'.items) :
                   history'.items[n] = history.items[n - 1]]_vars

(* C5 (as claimed): the history never has more than 50 entries, whatever    *)
(* the persisted store held at startup.                                      *)
C5_AtMostFifty == IsArray(history) => Len(history.items) <= HistoryCap

(* C6 (as claimed): two invocations that overlapped in time never both      *)
(* deliver a result: a workflow that was in flight while another delivered   *)
(* delivers nothing itself.                                                  *)
C6_NoOverlappingDeliveries ==
    [][\A i \in 1..Len(runs) : \A d \in Responses :
          Resolve(i, d) /\ ~crashed' => ~runs[i].sawDelivery]_vars

(* The slot holds the text of an array. *)
ValidStore(saved) == saved.type = "json" /\ IsArray(saved.value)

(* C7 (as claimed): when the slot at startup holds no valid serialized      *)
(* history sequence, the application starts with an empty history (all its   *)
(* entries are of this session) and never crashes.                           *)
C7_CorruptStartsEmpty ==
    ~ValidStore(boot)
    => /\ ~crashed
       /\ IsArray(history)
       /\ \A n \in 1..Len(history.items) : history.items[n].timestamp.at >= 1

(* C8 (as claimed): a response that does not satisfy the schema is never    *)
(* the result and never an entry of the history.                             *)
C8_OnlyValidResults ==
    /\ result # Null => SchemaValid(result)
    /\ IsArray(history)
         => \A n \in 1..Len(history.items) : SchemaValid(history.items[n])

(* C9: the slot is written through: in every state (every handler has run   *)
(* to its end, the effects of its render included) the stored text parses,   *)
(* and it parses to the in-memory history.                                   *)
C9_StoreMatchesHistory == ~ParseThrows(stored) /\ Parse(stored) = history

C9_Witness ==
    /\ IsArray(history)
    /\ Len(history.items) > 1
    /\ history.items[1].timestamp.at >= 1
    /\ result = history.items[1]
    /\ stored = Text(history)

(* C10: after a confirmed clear the in-memory history is empty, and the     *)
(* history a fresh start loads from the slot is empty.                       *)
C10_ClearThenLoadIsEmpty ==
    [][ClearHistory(TRUE)
        => /\ history' = Array(<<>>)
           /\ LoadHistory(stored') = Array(<<>>)
           /\ ~RenderThrows(LoadHistory(stored'), Null)]_vars

C10_Witness ==
    /\ ValidStore(boot)
    /\ Len(boot.value.items) > 0
    /\ history = Array(<<>>)
    /\ LoadHistory(stored) = Array(<<>>)

(* The value a reader of an exported document gets by parsing it. *)
Reparse(doc) == Parse(DecodeURIComponent(doc.href))

C12_NoImageNoOp ==
    [][HandleValuation /\ file = NoFile
        => UNCHANGED <<ui, runs, now, boot, camera, urls, download>>]_vars

C12_Witness ==
    /\ boot = Absent
    /\ urls = 0
    /\ file = NoFile
    /\ invoked = MaxRuns
    /\ runs = <<>>
    /\ showScanner
    /\ stream \in live
    /\ status = Idle

(* C13 (as claimed): while a workflow is in its phases no result is on show. *)
C13_NoResultDuringPhases ==
    ~crashed
    => ((\E j \in 1..Len(runs) : runs[j].pc = "dwell") => result = Null)

(* C14 (as claimed): at most one stream has live tracks at any moment.       *)
C14_OneLiveStream == Cardinality(live) <= 1

(* C15 (as claimed): once the component is unmounted and every pending call *)
(* and callback has returned, no stream that was acquired has a live track.  *)
C15_ReleasedAfterUnmount ==
    crashed /\ pending = {} /\ granted = <<>> /\ captures = <<>> => live = {}

(* After processFile(f): the file and the preview are f's, no result, the    *)
(* scanner closed, no stream in the state, and no stream that was ever in    *)
(* the state has a live track (a live stream is one whose startCamera has    *)
(* not resumed yet).                                                         *)
AfterProcessFile(f) ==
    /\ file' = f
    /\ preview' = f
    /\ result' = Null
    /\ ~showScanner'
    /\ stream' = NoStream
    /\ stream \notin live'
    /\ \A n \in live' : \E k \in 1..Len(granted') : granted'[k] = n

(* C16: after processFile with any file, called by handleFileChange or by    *)
(* the callback of a capture, from any state of the mounted component: the   *)
(* selected file and the preview are the new file's, the result is null, the *)
(* scanner is closed and no camera stream remains held.                      *)
C16_SelectFileResets ==
    [][/\ \A f \in Images : SelectFile(f) => AfterProcessFile(f)
       /\ BlobReady(TRUE) /\ ~crashed => AfterProcessFile("scan")]_vars

C16_Witness ==
    /\ ~crashed
    /\ file = "scan"
    /\ preview = "scan"
    /\ result = Null
    /\ IsArray(history) /\ history.items # <<>>
    /\ history.items[1].timestamp.at >= 1
    /\ started = MaxStreams
    /\ stream = NoStream
    /\ ~showScanner
    /\ live = {}

(* C17 (as claimed): whenever the status has left idle it returns to idle,   *)
(* whether the collaborator answers, fails, or never answers.  The workflows *)
(* that end in a render that throws are set aside here: a mounted component  *)
(* whose status is not idle gets an idle status, or else is unmounted.       *)
C17_EventuallyIdle ==
    (~crashed /\ status.step # "idle") ~> (crashed \/ status.step = "idle")

(* C18: whenever a workflow delivers a result, the timestamp of the result   *)
(* and of its history entry is not earlier than the time at which that       *)
(* workflow was invoked.                                                     *)
C18_StampedAfterStart ==
    [][\A i \in 1..Len(runs) : \A d \in Responses :
          Resolve(i, d) /\ ~crashed'
          => /\ result'.timestamp.at >= runs[i].startedAt
             /\ history'.items[1].timestamp.at >= runs[i].startedAt]_vars

C18_Witness ==
    /\ ~crashed
    /\ result # Null
    /\ result.timestamp.at > 1
    /\ IsArray(history) /\ Len(history.items) >= 2
    /\ history.items[1] = result
    /\ history.items[2].timestamp.at = 1

(* C19 (as claimed): the history changes only in a confirmed clear or when a *)
(* valuation succeeds, and then only by the new entry put in front of the    *)
(* earlier ones, cut to 50; a valuation that fails (the call rejects, or the *)
(* data does not satisfy the schema) leaves it unchanged.                    *)
C19_OnlySuccessOrClear ==
    [][history' # history
        => \/ ClearHistory(TRUE)
           \/ \E i \in 1..Len(runs) : \E d \in Responses :
                 /\ SchemaValid(d)
                 /\ Resolve(i, d)
                 /\ history' = Prepend(Stamp(d, now), history)]_vars

(* C20 (as claimed): at most one preview URL that was created is unreleased. *)
C20_OneUnreleasedPreview == urls <= 1

(* C21 (as claimed): in the state the failure path leaves (status step idle, *)
(* message 'Analysis failed.') the rendered view shows that message.         *)
C21_FailureMessageShown ==
    ~crashed /\ status = Failed => Failed.message \in MessagesShown(status)

===========================================================================
